---- MODULE Spec2Model ----
(***************************************************************************)
(* Model of web_search_mcp.py: a line-delimited JSON-RPC (MCP) server over *)
(* stdin/stdout with one tool, "search", which POSTs to an HTTP backend.   *)
(*                                                                         *)
(* JSON values (and the Python values json.loads turns them into) are      *)
(* tagged records; a dict is a function from its keys to JSON values.      *)
(* Python None is JSON null.                                               *)
(***************************************************************************)
EXTENDS Integers, Sequences, FiniteSets, TLC

VARIABLES
    pc,           \* position of main(): "readline", "loads", "handle", "search", "write", "done"
    line,         \* local `line` of main()
    request,      \* local `request` of main()
    response,     \* local `response` of main()
    stdout,       \* lines written to sys.stdout (each flushed when written)
    stderr,       \* text written to sys.stderr
    reply,        \* the HTTP outcome of the last requests.post
    result,       \* local `result` of handle_request: what search() returned
    nread,        \* history: number of lines readline() has returned
    wrote,        \* history: lines written to stdout in the current iteration
    called,       \* history: requests.post calls in the current iteration
    backendCalls, \* history: requests.post calls since start
    origin,       \* history: for each stdout line, the message it answers
    afterBad,     \* history: the line before the current one was not valid JSON
    flushed,      \* number of stdout lines flushed, i.e. visible to the client
    handshake,    \* history: the handshake methods handle_request has been given
    handled,      \* history: number of iterations that ran to their end
    nNamed,       \* history: lines read that are a tools/call naming "search"
    nCallable     \* history: ... and whose arguments are a mapping (or missing)

vars == <<pc, line, request, response, stdout, stderr, reply, result,
          nread, wrote, called, backendCalls, origin, afterBad,
          flushed, handshake, handled, nNamed, nCallable>>

---------------------------------------------------------------------------
(* Bounds *)

MaxLines == 2       \* lines the client sends before closing stdin
MaxBlocks == 3      \* content blocks in a backend body

---------------------------------------------------------------------------
(* JSON / Python values *)

JNull == [t |-> "null"]
JStr(s) == [t |-> "str", s |-> s]
JNum(n) == [t |-> "num", n |-> n]
JArr(a) == [t |-> "arr", a |-> a]
JObj(o) == [t |-> "obj", o |-> o]

PyNone == JNull
EmptyDict == [k \in {} |-> JNull]
Unbound == [t |-> "unbound"]          \* a local that was never assigned

IsDict(v) == v.t = "obj"
IsStr(v) == v.t = "str"

\* dict.get(key, default)
Get(d, key, default) == IF key \in DOMAIN d THEN d[key] ELSE default

\* outcome of a call: a returned value or a raised exception
Return(v) == [k |-> "return", val |-> v]
Raise(e) == [k |-> "raise", exc |-> e]

\* obj.get(key, default) on an arbitrary Python value: only a dict has .get
PyGet(v, key, default) ==
    IF IsDict(v) THEN Return(Get(v.o, key, default))
    ELSE Raise("AttributeError: object has no attribute 'get'")

\* str(v) as an f-string formats it (scalars; containers are not enumerated)
PyStr(v) ==
    CASE v.t = "str" -> v.s
      [] v.t = "null" -> "None"
      [] v.t = "num" -> ToString(v.n)
      [] OTHER -> "<repr>"

\* bool(v): None, empty containers, "" and 0 are false
Truthy(v) ==
    CASE v.t = "null" -> FALSE
      [] v.t = "obj" -> DOMAIN v.o # {}
      [] v.t = "arr" -> Len(v.a) > 0
      [] v.t = "str" -> v.s # ""
      [] v.t = "num" -> v.n # 0
      [] OTHER -> FALSE

---------------------------------------------------------------------------
(* Text lines and the json codec *)

\* a line of text: either the serialisation of a JSON value or other text
Text(v) == [json |-> TRUE, val |-> v]
Garbage(raw) == [json |-> FALSE, raw |-> raw]
EOFLine == Garbage("")                 \* readline() returns "" at end of stream

\* json.loads(line)
loads(ln) == IF ln.json THEN Return(ln.val) ELSE Raise("JSONDecodeError")

\* json.dumps(obj) + "\n"
dumps(v) == Text(v)


---------------------------------------------------------------------------
(* The backend: what requests.post(PROXY_URL, ...) can do *)

\* requests.post raised (connection refused, timeout, ...)
PostFails(msg) == [k |-> "exc", msg |-> msg]
\* requests.post returned a Response: status_code, text, and what .json() gives
HttpReply(status, text, body) == [k |-> "http", status_code |-> status, text |-> text, body |-> body]

NoResults == "No results found."
TextBlock(s) == JObj([type |-> JStr("text"), text |-> JStr(s)])

\* faulty variant of ConcatBlocks: each text is put in front of text_response
RECURSIVE ConcatBlocks_Prepend(_, _, _)
ConcatBlocks_Prepend(blocks, i, acc) ==
    IF i > Len(blocks) THEN Return(acc)
    ELSE LET block == blocks[i]
             type == PyGet(block, "type", PyNone)
         IN  IF type.k = "raise" THEN type
             ELSE IF type.val = JStr("text")
                  THEN LET text == Get(block.o, "text", JStr(""))
                       IN  IF IsStr(text)
                           THEN ConcatBlocks_Prepend(blocks, i + 1, text.s \o acc)
                           ELSE Raise("TypeError: can only concatenate str")
                  ELSE ConcatBlocks_Prepend(blocks, i + 1, acc)

\* the loop `for block in content_blocks: ...` of search(), from block i on,
\* with text_response = acc; iterating a non-list, block.get on a non-dict
\* and str += non-str raise
RECURSIVE ConcatBlocks(_, _, _)
ConcatBlocks(blocks, i, acc) ==
    IF i > Len(blocks) THEN Return(acc)
    ELSE LET block == blocks[i]
             type == PyGet(block, "type", PyNone)
         IN  IF type.k = "raise" THEN type
             ELSE IF type.val = JStr("text")
                  THEN LET text == Get(block.o, "text", JStr(""))
                       IN  IF IsStr(text)
                           THEN ConcatBlocks(blocks, i + 1, acc \o text.s)
                           ELSE Raise("TypeError: can only concatenate str")
                  ELSE ConcatBlocks(blocks, i + 1, acc)

\* what iterating `content_blocks` yields: the elements of a list, nothing for
\* an empty str or dict; a non-empty str or dict yields str items (whose .get
\* fails), anything else is not iterable
IterBlocks(content_blocks) ==
    CASE content_blocks.t = "arr" -> ConcatBlocks(content_blocks.a, 1, "")
      [] content_blocks.t = "str" /\ content_blocks.s = "" -> Return("")
      [] content_blocks.t = "obj" /\ DOMAIN content_blocks.o = {} -> Return("")
      [] content_blocks.t \in {"str", "obj"} -> Raise("AttributeError: 'str' object has no attribute 'get'")
      [] OTHER -> Raise("TypeError: object is not iterable")

\* the body of the try block of search(), lines 26-38
search_try(query, r) ==
    IF r.k = "exc" THEN Raise(r.msg)
    ELSE IF r.status_code # 200
         THEN Return("Error: Proxy returned status " \o ToString(r.status_code) \o " - " \o r.text)
         ELSE LET data == loads(r.body)
              IN  IF data.k = "raise" THEN Raise("Expecting value")
                  ELSE LET content_blocks == PyGet(data.val, "content", JArr(<<>>))
                       IN  IF content_blocks.k = "raise" THEN content_blocks
                           ELSE LET text_response == IterBlocks(content_blocks.val)
                                IN  IF text_response.k = "raise" THEN text_response
                                    ELSE Return(IF text_response.val # ""
                                                THEN text_response.val ELSE NoResults)

\* faulty variant of search: no `except Exception` around the try block
search_Uncaught(query, r) == search_try(query, r)

\* search(query) when the backend answers r: `except Exception` turns every
\* exception of the try block into a returned string
search(query, r) ==
    LET body == search_try(query, r)
    IN  IF body.k = "raise" THEN Return("Request failed: " \o body.exc) ELSE body

---------------------------------------------------------------------------
(* handle_request *)

InitializeResult ==
    JObj([protocolVersion |-> JStr("2024-11-05"),
          capabilities |-> JObj([tools |-> JObj(EmptyDict)]),
          serverInfo |-> JObj([name |-> JStr("Antigravity Search"),
                               version |-> JStr("1.0.0")])])

\* faulty variant of SearchTool: the schema does not list query as required
SearchTool_NoRequired ==
    JObj([name |-> JStr("search"),
          description |-> JStr("Performs a Google Search using the Antigravity Proxy."),
          inputSchema |->
              JObj([type |-> JStr("object"),
                    properties |->
                        JObj([query |-> JObj([type |-> JStr("string"),
                                              description |-> JStr("The search query")])])])])

SearchTool ==
    JObj([name |-> JStr("search"),
          description |-> JStr("Performs a Google Search using the Antigravity Proxy."),
          inputSchema |->
              JObj([type |-> JStr("object"),
                    properties |->
                        JObj([query |-> JObj([type |-> JStr("string"),
                                              description |-> JStr("The search query")])]),
                    required |-> JArr(<<JStr("query")>>)])])

ToolsListResult == JObj([tools |-> JArr(<<SearchTool>>)])

ToolNotFound == -32601

\* {"jsonrpc": "2.0", "id": req_id, "result": res}
ResultResponse(req_id, res) ==
    JObj([jsonrpc |-> JStr("2.0"), id |-> req_id, result |-> res])

\* faulty variant of ErrorResponse: the error envelope also has a null result
ErrorResponse_WithResult(req_id, code, message) ==
    JObj([jsonrpc |-> JStr("2.0"), id |-> req_id, result |-> JNull,
          error |-> JObj([code |-> JNum(code), message |-> JStr(message)])])

\* {"jsonrpc": "2.0", "id": req_id, "error": {"code": code, "message": message}}
ErrorResponse(req_id, code, message) ==
    JObj([jsonrpc |-> JStr("2.0"), id |-> req_id,
          error |-> JObj([code |-> JNum(code), message |-> JStr(message)])])

\* faulty variant of tool_result: the request id is not echoed
tool_result_NoId(req_id, text) ==
    JObj([jsonrpc |-> JStr("2.0"), id |-> PyNone,
          result |-> JObj([content |-> JArr(<<TextBlock(text)>>)])])

\* handle_request, lines 96-105: the response built once search() has returned
tool_result(req_id, text) ==
    ResultResponse(req_id, JObj([content |-> JArr(<<TextBlock(text)>>)]))

\* a suspended handle_request: it is at line 95, calling search(query)
CallSearch(req_id, query) == [k |-> "search", id |-> req_id, query |-> query]

\* faulty variant of tools_call: the tool name is not compared with "search"
tools_call_AnyTool(params, req_id) ==
    LET tool_name == PyGet(params, "name", PyNone)
        args == PyGet(params, "arguments", JObj(EmptyDict))
    IN  IF tool_name.k = "raise" THEN tool_name
        ELSE LET query == PyGet(args.val, "query", PyNone)
             IN  IF query.k = "raise" THEN query
                 ELSE CallSearch(req_id, query.val)

\* the "tools/call" branch of handle_request, lines 90-114
tools_call(params, req_id) ==
    LET tool_name == PyGet(params, "name", PyNone)
        args == PyGet(params, "arguments", JObj(EmptyDict))
    IN  IF tool_name.k = "raise" THEN tool_name
        ELSE IF tool_name.val = JStr("search")
             THEN LET query == PyGet(args.val, "query", PyNone)
                  IN  IF query.k = "raise" THEN query
                      ELSE CallSearch(req_id, query.val)
             ELSE Return(ErrorResponse(req_id, ToolNotFound,
                                       "Tool not found: " \o PyStr(tool_name.val)))

\* faulty variant of handle_request: initialize reads the protocolVersion the
\* caller asked for out of params before answering
handle_request_ReadsVersion(req) ==
    LET method == PyGet(req, "method", PyNone)
        params == PyGet(req, "params", JObj(EmptyDict))
        req_id == PyGet(req, "id", PyNone)
    IN  IF method.k = "raise" THEN method
        ELSE CASE method.val = JStr("initialize") ->
                      LET asked == PyGet(params.val, "protocolVersion", PyNone)
                      IN  IF asked.k = "raise" THEN asked
                          ELSE Return(ResultResponse(req_id.val, InitializeResult))
               [] method.val = JStr("notifications/initialized") ->
                      Return(PyNone)
               [] method.val = JStr("tools/list") ->
                      Return(ResultResponse(req_id.val, ToolsListResult))
               [] method.val = JStr("tools/call") ->
                      tools_call(params.val, req_id.val)
               [] OTHER -> Return(PyNone)

\* faulty variant of handle_request: a method outside the table is answered
\* with a JSON-RPC "Method not found" error
handle_request_MethodNotFound(req) ==
    LET method == PyGet(req, "method", PyNone)
        params == PyGet(req, "params", JObj(EmptyDict))
        req_id == PyGet(req, "id", PyNone)
    IN  IF method.k = "raise" THEN method
        ELSE CASE method.val = JStr("initialize") ->
                      Return(ResultResponse(req_id.val, InitializeResult))
               [] method.val = JStr("notifications/initialized") ->
                      Return(PyNone)
               [] method.val = JStr("tools/list") ->
                      Return(ResultResponse(req_id.val, ToolsListResult))
               [] method.val = JStr("tools/call") ->
                      tools_call(params.val, req_id.val)
               [] OTHER -> Return(ErrorResponse(req_id.val, ToolNotFound, "Method not found"))

\* faulty variant of handle_request: notifications/initialized is
\* acknowledged with an empty result
handle_request_AcksInitialized(req) ==
    LET method == PyGet(req, "method", PyNone)
        params == PyGet(req, "params", JObj(EmptyDict))
        req_id == PyGet(req, "id", PyNone)
    IN  IF method.k = "raise" THEN method
        ELSE CASE method.val = JStr("initialize") ->
                      Return(ResultResponse(req_id.val, InitializeResult))
               [] method.val = JStr("notifications/initialized") ->
                      Return(ResultResponse(req_id.val, JObj(EmptyDict)))
               [] method.val = JStr("tools/list") ->
                      Return(ResultResponse(req_id.val, ToolsListResult))
               [] method.val = JStr("tools/call") ->
                      tools_call(params.val, req_id.val)
               [] OTHER -> Return(PyNone)

\* handle_request(request) up to its return, its exception, or its call of
\* search() at line 95
handle_request(req) ==
    LET method == PyGet(req, "method", PyNone)
        params == PyGet(req, "params", JObj(EmptyDict))
        req_id == PyGet(req, "id", PyNone)
    IN  IF method.k = "raise" THEN method
        ELSE CASE method.val = JStr("initialize") ->
                      Return(ResultResponse(req_id.val, InitializeResult))
               [] method.val = JStr("notifications/initialized") ->
                      Return(PyNone)
               [] method.val = JStr("tools/list") ->
                      Return(ResultResponse(req_id.val, ToolsListResult))
               [] method.val = JStr("tools/call") ->
                      tools_call(params.val, req_id.val)
               [] OTHER -> Return(PyNone)

---------------------------------------------------------------------------
(* The inputs: lines a client can send, replies the backend can give *)

Absent == [t |-> "absent"]            \* a key the message does not have
Field(key, v) == IF v = Absent THEN EmptyDict ELSE (key :> v)

\* the line {"jsonrpc": "2.0", "method": m, "id": id, "params": p}
Message(m, id, p) ==
    Text(JObj(("jsonrpc" :> JStr("2.0")) @@ Field("method", m)
              @@ Field("id", id) @@ Field("params", p)))

SearchArgs == JObj([query |-> JStr("q")])

MalformedLines == {Garbage("garbage\n"), Garbage("\n")}

NonObjectLines == {Text(JArr(<<>>)), Text(JNum(5))}

InitializeLines ==
    {Message(JStr("initialize"), id, p) :
        id \in {Absent, JNum(1), JNum(2)},
        p \in {Absent, JArr(<<>>), JObj([protocolVersion |-> JStr("1999")])}}

PlainLines ==
    {Message(m, id, p) :
        m \in {JStr("notifications/initialized"), JStr("tools/list"), JStr("ping"), Absent},
        id \in {Absent, JNum(1)},
        p \in {Absent, JArr(<<>>)}}

ToolsCallLines ==
    {Message(JStr("tools/call"), id, p) :
        id \in {Absent, JNum(1)},
        p \in {Absent, JNull, JArr(<<>>), JObj(EmptyDict),
               JObj([name |-> JStr("frobnicate")]),
               JObj([name |-> JNum(5), arguments |-> SearchArgs]),
               JObj([name |-> JStr("search")]),
               JObj([name |-> JStr("search"), arguments |-> SearchArgs]),
               JObj([name |-> JStr("search"), arguments |-> JStr("q")])}}
    \cup {Message(JStr("tools/call"), JNum(2),
                  JObj([name |-> JStr("search"), arguments |-> SearchArgs]))}

Lines == MalformedLines \cup NonObjectLines \cup InitializeLines
            \cup PlainLines \cup ToolsCallLines

\* a 200 body {"content": blocks}
ContentBody(blocks) == Text(JObj([content |-> JArr(blocks)]))

\* the backend outcomes the server loop is run against
Replies ==
    {PostFails("Connection refused"),
     HttpReply(500, "oops", Garbage("oops")),
     HttpReply(200, "<html>", Garbage("<html>")),
     HttpReply(200, "{..}", ContentBody(<<TextBlock("a")>>))}

Blocks ==
    {TextBlock("a"), TextBlock("b"), TextBlock(""),
     JObj([type |-> JStr("image"), text |-> JStr("z")]),
     JObj([type |-> JStr("text")]),
     JObj([text |-> JStr("y")])}

BlockSeqs == UNION {[1..n -> Blocks] : n \in 0..MaxBlocks}

\* the backend outcomes search() is run against on its own
SearchReplies ==
    Replies
    \cup {HttpReply(200, "{..}", ContentBody(bs)) : bs \in BlockSeqs}
    \cup {HttpReply(200, "{..}", Text(v)) :
            v \in {JObj(EmptyDict), JArr(<<>>), JNull,
                   JObj([content |-> JNull]),
                   JObj([content |-> JStr("")]),
                   JObj([content |-> JStr("a")]),
                   JObj([content |-> JArr(<<JStr("a")>>)]),
                   JObj([content |-> JArr(<<TextBlock("a"), JObj([type |-> JStr("text"), text |-> JNum(5)])>>)])}}
    \cup {HttpReply(404, "not found", ContentBody(<<TextBlock("a")>>))}

---------------------------------------------------------------------------
(* Kinds of input line *)

\* the line decodes to a JSON object (a message)
IsMessage(ln) == ln.json /\ ln.val.t = "obj"
HasId(ln) == IsMessage(ln) /\ "id" \in DOMAIN ln.val.o
MethodIs(ln, m) == IsMessage(ln) /\ Get(ln.val.o, "method", Absent) = JStr(m)
ParamsOf(ln) == Get(ln.val.o, "params", JObj(EmptyDict))

\* tools/call whose params is a mapping (or missing)
IsToolsCall(ln) == MethodIs(ln, "tools/call") /\ ParamsOf(ln).t = "obj"
NameOf(ln) == Get(ParamsOf(ln).o, "name", Absent)
\* ... naming the tool "search", with arguments a mapping (or missing)
IsSearchCall(ln) ==
    /\ IsToolsCall(ln)
    /\ NameOf(ln) = JStr("search")
    /\ Get(ParamsOf(ln).o, "arguments", JObj(EmptyDict)).t = "obj"
\* ... naming anything else, or nothing
IsOtherToolCall(ln) == IsToolsCall(ln) /\ NameOf(ln) # JStr("search")

\* ... naming the tool "search", whatever its arguments
NamesSearch(ln) == IsToolsCall(ln) /\ NameOf(ln) = JStr("search")

HandshakeMethods == {JStr("initialize"), JStr("notifications/initialized")}

---------------------------------------------------------------------------
(* main(): the server loop *)

Init ==
    /\ pc = "readline"
    /\ line = Unbound
    /\ request = Unbound
    /\ response = Unbound
    /\ stdout = <<>>
    /\ stderr = <<"Starting Minimal MCP Server...\n">>
    /\ reply = Unbound
    /\ result = Unbound
    /\ nread = 0
    /\ wrote = 0
    /\ called = 0
    /\ backendCalls = 0
    /\ origin = <<>>
    /\ afterBad = FALSE
    /\ flushed = 0
    /\ handshake = {}
    /\ handled = 0
    /\ nNamed = 0
    /\ nCallable = 0

\* line 124: readline() returns the next line of stdin
ReadLine ==
    /\ pc = "readline"
    /\ nread < MaxLines
    /\ \E ln \in Lines :
          /\ line' = ln
          /\ nNamed' = nNamed + (IF NamesSearch(ln) THEN 1 ELSE 0)
          /\ nCallable' = nCallable + (IF IsSearchCall(ln) THEN 1 ELSE 0)
    /\ nread' = nread + 1
    /\ wrote' = 0
    /\ called' = 0
    /\ afterBad' = (nread > 0 /\ ~line.json)
    /\ pc' = "loads"
    /\ UNCHANGED <<request, response, stdout, stderr, reply, result, backendCalls, origin,
                   flushed, handshake, handled>>

\* lines 124-126: readline() returns "" at end of stream and the loop breaks
ReadEOF ==
    /\ pc = "readline"
    /\ line' = EOFLine
    /\ pc' = "done"
    /\ UNCHANGED <<request, response, stdout, stderr, reply, result,
                   nread, wrote, called, backendCalls, origin, afterBad,
                   flushed, handshake, handled, nNamed, nCallable>>

\* faulty variant of OnJSONDecodeError: after logging, control falls through
\* to the `if response:` of the iteration
OnJSONDecodeError_FallsThrough ==
    /\ stderr' = Append(stderr, "Failed to decode JSON: " \o line.raw \o "\n")
    /\ pc' = "write"
    /\ UNCHANGED <<request, response, stdout, handled>>

\* lines 135-136: except json.JSONDecodeError, then the next iteration
OnJSONDecodeError ==
    /\ stderr' = Append(stderr, "Failed to decode JSON: " \o line.raw \o "\n")
    /\ pc' = "readline"
    /\ handled' = handled + 1
    /\ UNCHANGED <<request, response, stdout>>

\* faulty variant of OnException: the traceback is logged and the loop ends
OnException_Exits(exc) ==
    /\ stderr' = Append(stderr, "Traceback: " \o exc \o "\n")
    /\ pc' = "done"
    /\ handled' = handled + 1

\* lines 137-138: except Exception, then the next iteration
OnException(exc) ==
    /\ stderr' = Append(stderr, "Traceback: " \o exc \o "\n")
    /\ pc' = "readline"
    /\ handled' = handled + 1

\* line 128: request = json.loads(line)
Loads ==
    /\ pc = "loads"
    /\ LET r == loads(line)
       IN  IF r.k = "raise"
           THEN OnJSONDecodeError
           ELSE /\ request' = r.val
                /\ pc' = "handle"
                /\ UNCHANGED <<response, stdout, stderr, handled>>
    /\ UNCHANGED <<line, reply, result, nread, wrote, called, backendCalls, origin, afterBad,
                   flushed, handshake, nNamed, nCallable>>

\* the handshake method, if any, that the call handle_request(req) is for
Handshake(req) ==
    IF IsDict(req) /\ Get(req.o, "method", Absent) \in HandshakeMethods
    THEN {Get(req.o, "method", Absent).s} ELSE {}

\* faulty variant of Handle: tools/list and tools/call are refused until an
\* initialize has been handled
Handle_RequiresInitialize ==
    /\ pc = "handle"
    /\ LET h == handle_request(request)
           method == Get(request.o, "method", Absent)
       IN  /\ h.k # "search"
           /\ IF h.k = "raise"
              THEN OnException(h.exc) /\ UNCHANGED response
              ELSE /\ response' =
                        IF /\ method \in {JStr("tools/list"), JStr("tools/call")}
                           /\ "initialize" \notin handshake
                        THEN ErrorResponse(Get(request.o, "id", PyNone), -32002,
                                           "Server not initialized")
                        ELSE h.val
                   /\ pc' = "write"
                   /\ UNCHANGED <<stderr, handled>>
    /\ handshake' = handshake \cup Handshake(request)
    /\ UNCHANGED <<line, request, stdout, reply, result, nread, wrote, called,
                   backendCalls, origin, afterBad, flushed, nNamed, nCallable>>

\* faulty variant of Handle: only handle_request is inside the try, so after
\* the traceback control goes on to the `if response:` of the iteration
Handle_WritesStale ==
    /\ pc = "handle"
    /\ LET h == handle_request(request)
       IN  /\ h.k # "search"
           /\ IF h.k = "raise"
              THEN /\ stderr' = Append(stderr, "Traceback: " \o h.exc \o "\n")
                   /\ pc' = "write"
                   /\ UNCHANGED <<response, handled>>
              ELSE /\ response' = h.val
                   /\ pc' = "write"
                   /\ UNCHANGED <<stderr, handled>>
    /\ handshake' = handshake \cup Handshake(request)
    /\ UNCHANGED <<line, request, stdout, reply, result, nread, wrote, called,
                   backendCalls, origin, afterBad, flushed, nNamed, nCallable>>

\* line 129: response = handle_request(request), when it returns or raises
\* without calling search()
Handle ==
    /\ pc = "handle"
    /\ LET h == handle_request(request)
       IN  /\ h.k # "search"
           /\ IF h.k = "raise"
              THEN OnException(h.exc) /\ UNCHANGED response
              ELSE /\ response' = h.val
                   /\ pc' = "write"
                   /\ UNCHANGED <<stderr, handled>>
    /\ handshake' = handshake \cup Handshake(request)
    /\ UNCHANGED <<line, request, stdout, reply, result, nread, wrote, called,
                   backendCalls, origin, afterBad, flushed, nNamed, nCallable>>

\* lines 129, 95, 26: handle_request calls search(), which POSTs and blocks
HandleCallsSearch ==
    /\ pc = "handle"
    /\ handle_request(request).k = "search"
    /\ called' = called + 1
    /\ backendCalls' = backendCalls + 1
    /\ pc' = "search"
    /\ UNCHANGED <<line, request, response, stdout, stderr, reply, result,
                   nread, wrote, origin, afterBad,
                   flushed, handshake, handled, nNamed, nCallable>>

\* lines 26-41, 95-105: the backend answers (or the POST fails), search()
\* returns and handle_request returns the tool response
SearchReturns ==
    /\ pc = "search"
    /\ \E r \in Replies :
         LET h == handle_request(request)
             res == search(h.query, r)
         IN  /\ reply' = r
             /\ IF res.k = "raise"
                THEN OnException(res.exc) /\ UNCHANGED <<response, result>>
                ELSE /\ result' = JStr(res.val)
                     /\ response' = tool_result(h.id, res.val)
                     /\ pc' = "write"
                     /\ UNCHANGED <<stderr, handled>>
    /\ UNCHANGED <<line, request, stdout, nread, wrote, called, backendCalls, origin, afterBad,
                   flushed, handshake, nNamed, nCallable>>

\* the message a stdout line answers
Origin(n, req) ==
    [n |-> n,
     id |-> Get(req.o, "id", Absent),
     method |-> Get(req.o, "method", Absent)]

\* faulty variant of Write: the response is written without the `if response:`
Write_Unconditional ==
    /\ pc = "write"
    /\ stdout' = Append(stdout, dumps(response))
    /\ flushed' = Len(stdout')
    /\ origin' = Append(origin, Origin(nread, request))
    /\ wrote' = wrote + 1
    /\ pc' = "readline"
    /\ handled' = handled + 1
    /\ UNCHANGED <<line, request, response, stderr, reply, result, nread,
                   called, backendCalls, afterBad, handshake, nNamed, nCallable>>

\* faulty variant of Write: the line is written but stdout is not flushed
Write_NoFlush ==
    /\ pc = "write"
    /\ IF Truthy(response)
       THEN /\ stdout' = Append(stdout, dumps(response))
            /\ origin' = Append(origin, Origin(nread, request))
            /\ wrote' = wrote + 1
       ELSE UNCHANGED <<stdout, origin, wrote>>
    /\ pc' = "readline"
    /\ handled' = handled + 1
    /\ UNCHANGED <<line, request, response, stderr, reply, result, nread,
                   called, backendCalls, afterBad, flushed, handshake, nNamed, nCallable>>

\* lines 131-133: if response: write json.dumps(response) + "\n" and flush
Write ==
    /\ pc = "write"
    /\ IF Truthy(response)
       THEN /\ stdout' = Append(stdout, dumps(response))
            /\ flushed' = Len(stdout')
            /\ origin' = Append(origin, Origin(nread, request))
            /\ wrote' = wrote + 1
       ELSE UNCHANGED <<stdout, flushed, origin, wrote>>
    /\ pc' = "readline"
    /\ handled' = handled + 1
    /\ UNCHANGED <<line, request, response, stderr, reply, result, nread,
                   called, backendCalls, afterBad, handshake, nNamed, nCallable>>

Next ==
    \/ ReadLine
    \/ ReadEOF
    \/ Loads
    \/ Handle
    \/ HandleCallsSearch
    \/ SearchReturns
    \/ Write

Spec == Init /\ [][Next]_vars

\* the interpreter keeps running the loop: it never stops between two steps,
\* readline() returns once the client has sent a line or closed stdin, and
\* the backend call returns
FairSpec == Spec /\ WF_vars(Next)

---------------------------------------------------------------------------
(* search() on its own, against every modelled backend outcome *)

\* search("q") is about to be called; the backend will answer `reply`
InitSearch ==
    /\ pc = "search"
    /\ reply \in SearchReplies
    /\ line = Unbound
    /\ request = Unbound
    /\ response = Unbound
    /\ stdout = <<>>
    /\ stderr = <<"Starting Minimal MCP Server...\n">>
    /\ result = Unbound
    /\ nread = 0
    /\ wrote = 0
    /\ called = 0
    /\ backendCalls = 0
    /\ origin = <<>>
    /\ afterBad = FALSE
    /\ flushed = 0
    /\ handshake = {}
    /\ handled = 0
    /\ nNamed = 0
    /\ nCallable = 0

\* result = search("q")
ApplySearch ==
    /\ pc = "search"
    /\ LET res == search(JStr("q"), reply)
       IN  IF res.k = "raise"
           THEN pc' = "raised" /\ UNCHANGED result
           ELSE pc' = "returned" /\ result' = JStr(res.val)
    /\ called' = called + 1
    /\ backendCalls' = backendCalls + 1
    /\ UNCHANGED <<line, request, response, stdout, stderr, reply, nread, wrote, origin, afterBad,
                   flushed, handshake, handled, nNamed, nCallable>>

NextSearch == ApplySearch

SpecSearch == InitSearch /\ [][NextSearch]_vars

---------------------------------------------------------------------------
(* Vocabulary of the properties *)

\* the loop has finished the iteration for `line` and is about to read again
IterDone == pc = "readline" /\ nread > 0

\* the k-th stdout line parsed back as JSON
Resp(k) == loads(stdout[k]).val
LastResp == Resp(Len(stdout))
\* the stdout lines written during the current iteration
WrittenNow == SubSeq(stdout, Len(stdout) - wrote + 1, Len(stdout))

---------------------------------------------------------------------------
(* C1 *)

\* the messages the dispatcher answers: initialize, tools/list, and a
\* tools/call whose params (and, for "search", arguments) are mappings
Answered(ln) ==
    \/ MethodIs(ln, "initialize")
    \/ MethodIs(ln, "tools/list")
    \/ IsSearchCall(ln)
    \/ IsOtherToolCall(ln)

\* C1 as stated: every message carrying an id, whatever its method and
\* params, gets exactly one Response line.
C1_EveryRequestAnswered ==
    (IterDone /\ HasId(line)) => wrote = 1

\* C1 amended: a message carrying an id gets exactly one Response line when
\* its method is initialize or tools/list, or tools/call with params a mapping
\* (and arguments a mapping when the tool is "search"); it gets no line
\* otherwise; it never gets more than one.
C1_KnownRequestsAnswered ==
    (IterDone /\ HasId(line)) =>
        /\ wrote = (IF Answered(line) THEN 1 ELSE 0)
        /\ Len(stdout) >= wrote

\* the second line read carried an id and was a tools/call: one Response
C1_Witness ==
    /\ IterDone /\ nread = 2
    /\ HasId(line) /\ IsOtherToolCall(line)
    /\ wrote = 1

---------------------------------------------------------------------------
(* C2 *)

\* C2 as stated: a message without an id, whatever its method, gets no
\* stdout line.
C2_NotificationsSilent ==
    (IterDone /\ IsMessage(line) /\ ~HasId(line)) => wrote = 0

---------------------------------------------------------------------------
(* C3 *)

\* C3: every Response on stdout has jsonrpc "2.0" and the id of the message
\* that was being processed when it was written (null, which is what
\* request.get("id") gives, when that message had no id).
C3_EnvelopeEchoesId ==
    \A k \in 1..Len(stdout) :
        /\ Len(origin) = Len(stdout)
        /\ IsDict(Resp(k))
        /\ {"jsonrpc", "id"} \subseteq DOMAIN Resp(k).o
        /\ Resp(k).o.jsonrpc = JStr("2.0")
        /\ Resp(k).o.id = (IF origin[k].id = Absent THEN JNull ELSE origin[k].id)

\* two Responses on stdout, answering requests with ids 1 and 2
C3_Witness ==
    /\ Len(stdout) = 2
    /\ origin[1].id = JNum(1) /\ origin[2].id = JNum(2)
    /\ Resp(1).o.id = JNum(1) /\ Resp(2).o.id = JNum(2)

---------------------------------------------------------------------------
(* C4 *)

\* what a server that has seen nothing else writes for the valid line ln when
\* the backend (if called) answers r
Alone(ln, r) ==
    LET h == handle_request(ln.val)
    IN  CASE h.k = "raise" -> <<>>
          [] h.k = "search" -> <<dumps(tool_result(h.id, search(h.query, r).val))>>
          [] OTHER -> IF Truthy(h.val) THEN <<dumps(h.val)>> ELSE <<>>

\* C4: a line that is not valid JSON writes nothing to stdout and calls
\* nothing, the loop goes on to the next read (it stops only at end of
\* stream), and the valid line after it is answered as if it came alone.
C4_MalformedLineSkipped ==
    /\ (IterDone /\ ~line.json) => (wrote = 0 /\ called = 0)
    /\ (pc = "done") => line = EOFLine
    /\ (IterDone /\ afterBad /\ line.json) => WrittenNow = Alone(line, reply)

\* a malformed line, then a valid request, answered
C4_Witness ==
    /\ IterDone /\ afterBad /\ line.json
    /\ wrote = 1 /\ Len(stdout) = 1

---------------------------------------------------------------------------
(* C5 *)

\* a tool result whose content is a single text block
IsTextResult(resp) ==
    /\ IsDict(resp)
    /\ "result" \in DOMAIN resp.o
    /\ "error" \notin DOMAIN resp.o
    /\ IsDict(resp.o.result)
    /\ DOMAIN resp.o.result.o = {"content"}
    /\ resp.o.result.o.content.t = "arr"
    /\ Len(resp.o.result.o.content.a) = 1
    /\ LET block == resp.o.result.o.content.a[1]
       IN  /\ IsDict(block)
           /\ DOMAIN block.o = {"type", "text"}
           /\ block.o.type = JStr("text")
           /\ IsStr(block.o.text)

\* C5 as stated: every tools/call naming "search" is answered by a Response
\* with a result holding a single text block.
C5_EverySearchCallAnswered ==
    (IterDone /\ NamesSearch(line)) => (wrote = 1 /\ IsTextResult(LastResp))

\* C5 amended: a tools/call naming "search" whose arguments are a mapping (or
\* missing) is answered by exactly one Response with a result (never an
\* error) holding a single text block, whatever the backend did; search()
\* returns a string for every backend outcome.
C5_SearchAlwaysResult ==
    /\ (IterDone /\ IsSearchCall(line)) =>
           (wrote = 1 /\ IsTextResult(LastResp) /\ LastResp.o.result.o.content.a[1].o.text = result)
    /\ (pc = "search" /\ nread > 0) =>
           \A r \in SearchReplies : search(handle_request(request).query, r).k = "return"

\* the POST itself failed and the call was still answered with a result
C5_Witness ==
    /\ IterDone /\ IsSearchCall(line)
    /\ reply.k = "exc" /\ called = 1
    /\ wrote = 1 /\ IsTextResult(LastResp)

---------------------------------------------------------------------------
(* C6 *)

\* the tool name as the message shows it
NameText(ln) ==
    LET name == NameOf(ln)
    IN  CASE name = Absent -> "None"
          [] name.t = "str" -> name.s
          [] name.t = "num" -> ToString(name.n)
          [] OTHER -> "None"

\* C6: a tools/call naming anything but "search" (or nothing) is answered by
\* an error -32601 "Tool not found: <name>", without a result and without a
\* backend call.
C6_UnknownToolError ==
    (IterDone /\ IsOtherToolCall(line)) =>
        /\ wrote = 1
        /\ called = 0
        /\ DOMAIN LastResp.o = {"jsonrpc", "id", "error"}
        /\ LastResp.o.error = JObj([code |-> JNum(-32601),
                                    message |-> JStr("Tool not found: " \o NameText(line))])

\* a tools/call without a name was answered
C6_Witness ==
    /\ IterDone /\ IsOtherToolCall(line)
    /\ NameOf(line) = Absent
    /\ wrote = 1 /\ "error" \in DOMAIN LastResp.o

---------------------------------------------------------------------------
(* C7 *)

\* C7: every Response on stdout has exactly one of result and error.
C7_ResultXorError ==
    \A k \in 1..Len(stdout) :
        /\ IsDict(Resp(k))
        /\ ("result" \in DOMAIN Resp(k).o) # ("error" \in DOMAIN Resp(k).o)

\* stdout holds an error Response and a result Response
C7_Witness ==
    /\ Len(stdout) = 2
    /\ "error" \in DOMAIN Resp(1).o
    /\ "result" \in DOMAIN Resp(2).o

---------------------------------------------------------------------------
(* C8 *)

\* the 200 reply carries a JSON object whose content (if any) is an array of
\* objects, the text of each "text" block (if any) being a string
ContentOf(r) == Get(r.body.val.o, "content", JArr(<<>>))
WellFormed(r) ==
    /\ r.k = "http" /\ r.status_code = 200
    /\ r.body.json /\ r.body.val.t = "obj"
    /\ ContentOf(r).t = "arr"
    /\ \A i \in 1..Len(ContentOf(r).a) :
          LET b == ContentOf(r).a[i]
          IN  /\ b.t = "obj"
              /\ Get(b.o, "text", JStr("")).t = "str"

IsTextBlock(b) == Get(b.o, "type", Absent) = JStr("text")

RECURSIVE Join(_)
Join(bs) ==
    IF bs = <<>> THEN ""
    ELSE Get(Head(bs).o, "text", JStr("")).s \o Join(Tail(bs))

\* the texts of the "text" blocks of the reply, joined in array order
TextOf(r) == Join(SelectSeq(ContentOf(r).a, IsTextBlock))

\* C8: on HTTP 200 search() returns the texts of the "text" blocks of content
\* joined in array order, other blocks skipped, and "No results found." in
\* place of an empty join.
C8_ConcatenatesTextBlocks ==
    (pc # "search" /\ WellFormed(reply)) =>
        /\ pc = "returned"
        /\ result = JStr(IF TextOf(reply) = "" THEN "No results found." ELSE TextOf(reply))

\* text "a", an image block, text "b": search() returned "ab"
C8_Witness ==
    /\ pc = "returned"
    /\ WellFormed(reply)
    /\ Len(ContentOf(reply).a) = 3
    /\ \E i \in 1..3 : ~IsTextBlock(ContentOf(reply).a[i])
    /\ result = JStr("ab")

---------------------------------------------------------------------------
(* C9 *)

\* a Response without its id
SansId(resp) == [key \in DOMAIN resp.o \ {"id"} |-> resp.o[key]]

\* C9: initialize is always answered, whatever its params and whatever came
\* before, with a result holding protocolVersion, capabilities.tools and
\* serverInfo; any two initialize Responses differ at most in id.
C9_InitializeIdempotent ==
    /\ (IterDone /\ MethodIs(line, "initialize")) => wrote = 1
    /\ \A k \in 1..Len(stdout) :
          origin[k].method = JStr("initialize") =>
              /\ DOMAIN Resp(k).o = {"jsonrpc", "id", "result"}
              /\ DOMAIN Resp(k).o.result.o = {"protocolVersion", "capabilities", "serverInfo"}
              /\ Resp(k).o.result.o.protocolVersion = JStr("2024-11-05")
              /\ Resp(k).o.result.o.capabilities = JObj([tools |-> JObj(EmptyDict)])
              /\ DOMAIN Resp(k).o.result.o.serverInfo.o = {"name", "version"}
              /\ \A j \in 1..Len(stdout) :
                    origin[j].method = JStr("initialize") => SansId(Resp(j)) = SansId(Resp(k))

\* initialize was answered twice, under different ids
C9_Witness ==
    /\ Len(stdout) = 2
    /\ origin[1].method = JStr("initialize") /\ origin[2].method = JStr("initialize")
    /\ Resp(1).o.id # Resp(2).o.id
    /\ Resp(1).o.result = Resp(2).o.result

---------------------------------------------------------------------------
(* C10 *)

\* C10: tools/list is always answered, whatever came before, with a list of
\* exactly one tool, named "search", whose schema requires the string
\* property query.
C10_ToolsListFixed ==
    /\ (IterDone /\ MethodIs(line, "tools/list")) => wrote = 1
    /\ \A k \in 1..Len(stdout) :
          origin[k].method = JStr("tools/list") =>
              /\ DOMAIN Resp(k).o = {"jsonrpc", "id", "result"}
              /\ Resp(k).o.result.o.tools.t = "arr"
              /\ Len(Resp(k).o.result.o.tools.a) = 1
              /\ LET tool == Resp(k).o.result.o.tools.a[1].o
                 IN  /\ tool.name = JStr("search")
                     /\ {"type", "properties", "required"} \subseteq DOMAIN tool.inputSchema.o
                     /\ tool.inputSchema.o.type = JStr("object")
                     /\ tool.inputSchema.o.required = JArr(<<JStr("query")>>)
                     /\ tool.inputSchema.o.properties.o.query.o.type = JStr("string")

\* tools/list answered after an earlier tools/call was answered
C10_Witness ==
    /\ Len(stdout) = 2
    /\ origin[1].method = JStr("tools/call")
    /\ origin[2].method = JStr("tools/list")
    /\ Resp(2).o.result.o.tools.a[1].o.name = JStr("search")

---------------------------------------------------------------------------
(* C11 *)

KnownMethods ==
    {JStr("initialize"), JStr("notifications/initialized"),
     JStr("tools/list"), JStr("tools/call")}

\* a message whose method is not in the table (or that has no method)
IsUnknownMethod(ln) ==
    IsMessage(ln) /\ Get(ln.val.o, "method", Absent) \notin KnownMethods

\* C11: a message whose method is outside initialize,
\* notifications/initialized, tools/list and tools/call writes nothing to
\* stdout, with or without an id, and calls nothing.
C11_UnknownMethodSilent ==
    (IterDone /\ IsUnknownMethod(line)) => (wrote = 0 /\ called = 0)

\* "ping" with an id, read after an answered request, left stdout as it was
C11_Witness ==
    /\ IterDone /\ nread = 2
    /\ MethodIs(line, "ping") /\ HasId(line)
    /\ wrote = 0 /\ Len(stdout) = 1

---------------------------------------------------------------------------
(* C12 *)

---------------------------------------------------------------------------
(* C13 *)

\* at most one line per iteration, stdout in arrival order, nothing unflushed
\* while the loop waits for input
Sequential ==
    /\ wrote <= 1
    /\ Len(origin) = Len(stdout)
    /\ \A k \in 1..Len(origin) : origin[k].n <= nread
    /\ \A j, k \in 1..Len(origin) : j < k => origin[j].n < origin[k].n
    /\ pc \in {"readline", "loads"} => flushed = Len(stdout)
    /\ pc = "search" => handled = nread - 1

\* C13: a line is read only when the iteration for the line before it has run
\* to its end (backend call included) and its response, at most one, is
\* flushed; so stdout holds the responses in the arrival order of their
\* requests.
C13_StrictlySequential ==
    /\ []Sequential
    /\ [][nread' # nread =>
            (pc = "readline" /\ nread' = nread + 1
                /\ handled = nread /\ flushed = Len(stdout))]_vars

\* two requests answered in order, both responses flushed
C13_Witness ==
    /\ pc = "readline"
    /\ Len(stdout) = 2 /\ flushed = 2
    /\ origin[1].n = 1 /\ origin[2].n = 2
    /\ backendCalls >= 1

---------------------------------------------------------------------------
(* C14 *)

\* C14: the loop ends only by readline() returning end of stream, never by a
\* message, a malformed or blank line or a handler failure, every line read
\* has then been processed; and with a finite input and a backend that
\* answers, the loop does end.
C14_EndsOnlyAtEndOfStream ==
    /\ [](pc = "done" => (line = EOFLine /\ handled = nread))
    /\ [][pc' = "done" => (pc \in {"readline", "done"} /\ line' = EOFLine)]_vars
    /\ <>(pc = "done")

\* the loop has ended after two lines that both failed
C14_Witness ==
    /\ pc = "done"
    /\ nread = 2 /\ handled = 2
    /\ Len(stderr) = 3

---------------------------------------------------------------------------
(* C15 *)

\* C15: notifications/initialized writes nothing to stdout, with or without
\* an id.
C15_InitializedSilent ==
    (IterDone /\ MethodIs(line, "notifications/initialized")) =>
        (wrote = 0 /\ called = 0 /\ handled = nread)

\* notifications/initialized carrying an id went unanswered
C15_Witness ==
    /\ IterDone
    /\ MethodIs(line, "notifications/initialized") /\ HasId(line)
    /\ "notifications/initialized" \in handshake
    /\ wrote = 0

---------------------------------------------------------------------------
(* C16 *)

\* a line of valid JSON on which handle_request raises: not an object, or a
\* tools/call whose params is not a mapping, or one naming "search" whose
\* arguments is not a mapping
Raises(ln) ==
    /\ ln.json
    /\ \/ ln.val.t # "obj"
       \/ MethodIs(ln, "tools/call") /\ ParamsOf(ln).t # "obj"
       \/ NamesSearch(ln) /\ ~IsSearchCall(ln)

\* C16: a failure raised while handling a line of valid JSON is caught: once
\* handle_request has been given the line, the loop is back at the read, with
\* a traceback on stderr, nothing written to stdout and no backend call.
C16_HandlerFailureCaught ==
    (nread > 0 /\ Raises(line) /\ pc \notin {"loads", "handle"}) =>
        /\ pc = "readline"
        /\ wrote = 0 /\ called = 0
        /\ handled = nread
        /\ Len(stderr) >= 2

\* a tools/call with an id and non-mapping params or arguments failed after
\* an earlier request was answered, and stdout was left as it was
C16_Witness ==
    /\ IterDone /\ nread = 2
    /\ Raises(line) /\ HasId(line)
    /\ wrote = 0 /\ Len(stdout) = 1

---------------------------------------------------------------------------
(* C17 *)

\* C17 as stated: the backend calls made equal the tools/call messages naming
\* "search" that were processed.
C17_CallPerNamedSearch ==
    (pc \in {"readline", "done"}) => backendCalls = nNamed

\* C17 amended: the backend is called exactly once for each tools/call naming
\* "search" whose arguments are a mapping (or missing), with or without id or
\* query, and never for another line; the calls made equal the number of such
\* messages processed.
C17_CallPerSearchCall ==
    /\ called <= 1
    /\ IterDone => called = (IF IsSearchCall(line) THEN 1 ELSE 0)
    /\ (pc \in {"readline", "done"}) => backendCalls = nCallable
    /\ backendCalls <= nCallable

\* a search without id and without arguments called the backend
C17_Witness ==
    /\ IterDone
    /\ IsSearchCall(line) /\ ~HasId(line)
    /\ "arguments" \notin DOMAIN ParamsOf(line).o
    /\ called = 1 /\ backendCalls = nCallable

====
